---- MODULE Spec2Model ----
(***************************************************************************)
(* Model of the README section patchers of urdekcah/urdekcah:              *)
(*   weather   crate  (WeatherSection::parse, WeatherService)              *)
(*   wakatime  crate  (WakaTimeService, Template::make_graph)              *)
(*   urdekcah  binary (ServiceRunner::run)                                 *)
(*                                                                         *)
(* A document is a sequence of tokens.  A token is either one character    *)
(* ("a", " ", "\n", "-", ">") or one marker literal that the code only     *)
(* ever handles as a whole ("<!--START_SECTION:weather:").  The closing    *)
(* delimiter "-->" is kept as its three characters, so that a search for   *)
(* it sees the one at the end of every marker, as str::find does.          *)
(* Offsets are 1-based token positions; 0 stands for Option::None.         *)
(***************************************************************************)
EXTENDS Integers, Sequences, FiniteSets, TLC

VARIABLES
  doc,      \* SpecLocate: the document handed to WeatherSection::parse
  parsed,   \* SpecLocate: the value parse returned ("kind" = "none" before the call)
  blocks,   \* SpecGraph: config.wakatime.blocks, as its characters
  percent,  \* SpecGraph: the language's percent, in hundredths of a percent
  graph,    \* SpecGraph: what make_graph returned (<<>> before the call)
  languages, \* SpecRows: stats.languages, as their names in snapshot order
  settings, \* SpecRows: lang_count, stop_at_other and the ignored names
  rows,     \* SpecRows: the positions render_languages made rows of
  now,      \* Utc::now(), in whole seconds
  upW,      \* the weather provider's current snapshot
  cache,    \* WeatherService.cache: Option<(WeatherInfo, DateTime<Utc>)>
  readers,  \* the tasks holding WeatherService.cache's read lock
  writer,   \* the task holding its write lock, or "none"
  fpc,      \* per task: where it is in fetch_weather
  fcity,    \* per task: the city argument of its fetch_weather call
  fpend,    \* per task: the (WeatherInfo, Utc::now()) pair it is about to store
  fres,     \* per task: what fetch_weather returned
  freq,     \* per task: upstream requests it has sent
  fhist,    \* per task: what held when it read the cache (history)
  file,     \* the content of README.md
  tmp,      \* the content of README.tmp
  upK,      \* the WakaTime provider's current snapshot
  kcache,   \* WakaTimeService.cache
  rpc,      \* where ServiceRunner::run (or the one service's run) is
  wloc,     \* WeatherService::run's locals
  wres,     \* what WeatherService::run returned
  kloc,     \* WakaTimeService::run's locals
  kres,     \* what WakaTimeService::run returned
  tg,       \* TelegramClient::send_message: attempts made, and the outcome
  rres,     \* what ServiceRunner::run returned
  runs,     \* cycles (runs) started so far
  kreq,     \* upstream requests WakaTimeService has sent
  hist      \* history of the current and the previous cycle

locateVars == <<doc, parsed>>
graphVars == <<blocks, percent, graph, languages, settings, rows>>
fetchVars == <<upW, cache, readers, writer, fpc, fcity, fpend, fres, freq, fhist>>
runVars == <<file, tmp, upK, kcache, rpc, wloc, wres, kloc, kres, tg, rres, runs, kreq, hist>>
vars == <<locateVars, graphVars, now, fetchVars, runVars>>

-----------------------------------------------------------------------------
(* Bounds of the model *)

\* pieces per enumerated document
MaxPieces == 4
\* characters per target identifier
MaxTarget == 3

-----------------------------------------------------------------------------
(* str helpers *)

NL == "\n"
SP == " "

IsWhite(c) == c \in {SP, NL}

Min(S) == CHOOSE x \in S : \A y \in S : x <= y
Max(S) == CHOOSE x \in S : \A y \in S : x >= y

\* s[from..] as a sequence (from is 1-based; from = Len(s)+1 gives the empty string)
From(s, from) == SubSeq(s, from, Len(s))

\* positions at which pat occurs in s
Occ(s, pat) ==
  {i \in 1..(Len(s) - Len(pat) + 1) : SubSeq(s, i, i + Len(pat) - 1) = pat}

\* str::find: position of the first occurrence, 0 when there is none
Find(s, pat) == IF Occ(s, pat) = {} THEN 0 ELSE Min(Occ(s, pat))

\* s[from..].find(pat).map(|p| from + p): absolute position, 0 when none
FindFrom(s, pat, from) ==
  LET r == Find(From(s, from), pat) IN IF r = 0 THEN 0 ELSE from + r - 1

\* str::trim: leading and trailing whitespace removed
Trim(s) ==
  LET keep == {i \in 1..Len(s) : ~IsWhite(s[i])}
  IN IF keep = {} THEN <<>> ELSE SubSeq(s, Min(keep), Max(keep))

RECURSIVE Concat(_)
Concat(ss) == IF ss = <<>> THEN <<>> ELSE Head(ss) \o Concat(Tail(ss))

-----------------------------------------------------------------------------
(* Constants of the weather crate *)

HTML_COMMENT_END == <<"-", "-", ">">>
START_SECTION_PREFIX == <<"<!--START_SECTION:weather:">>
WEATHER_END == <<"<!--END_SECTION:weather">> \o HTML_COMMENT_END
LAST_UPDATE_PREFIX == <<"<!--LAST_WEATHER_UPDATE:">>

\* The clock counts whole seconds.  Stamp(n) is the text that
\* format(DATETIME_FORMAT) gives for second n, one token per second.
MaxClock == 3
Stamps == <<"t0", "t1", "t2", "t3", "t4", "t5", "t6">>
Stamp(n) == Stamps[n + 1]
IsStamp(c) == \E n \in 0..(Len(Stamps) - 1) : Stamps[n + 1] = c
StampValue(c) == CHOOSE n \in 0..(Len(Stamps) - 1) : Stamps[n + 1] = c

\* Option<DateTime<Utc>>: -1 is None
NoTime == -1

\* DateTime::parse_from_str(timestamp + " +0000", DATETIME_FORMAT + " %z").ok()
ParseDateTime(ts) ==
  IF Len(ts) = 1 /\ IsStamp(ts[1]) THEN StampValue(ts[1]) ELSE NoTime

-----------------------------------------------------------------------------
(* WeatherSection *)

\* WeatherSection::parse_last_update.  The unwrap_or(content.len()) fallback
\* makes the slice end at timestamp_start + content.len(), past the end of
\* the string: the slice panics.
WeatherParseLastUpdate(content) ==
  LET update_pos == Find(content, LAST_UPDATE_PREFIX)
      timestamp_start == update_pos + Len(LAST_UPDATE_PREFIX)
      rel == Find(From(content, timestamp_start), HTML_COMMENT_END)
  IN IF update_pos = 0 THEN [panic |-> FALSE, value |-> NoTime]
     ELSE IF rel = 0 THEN [panic |-> TRUE, value |-> NoTime]
     ELSE [panic |-> FALSE,
           value |-> ParseDateTime(
                       Trim(SubSeq(content, timestamp_start, timestamp_start + rel - 2)))]

NoSection == [kind |-> "none", city |-> <<>>, last_update |-> NoTime,
              start_pos |-> 0, end_pos |-> 0]

SectionErr(e) == [NoSection EXCEPT !.kind = e]

\* WeatherSection::parse with the city taken verbatim, trim() left out
WeatherSectionParseNoTrim(content) ==
  LET start_pos == Find(content, START_SECTION_PREFIX)
      end_pos == FindFrom(content, WEATHER_END, start_pos)
      city_start == start_pos + Len(START_SECTION_PREFIX)
      city_end == Find(From(content, city_start), HTML_COMMENT_END)
      city == SubSeq(content, city_start, city_start + city_end - 2)
      lu == WeatherParseLastUpdate(SubSeq(content, start_pos, end_pos - 1))
  IN IF start_pos = 0 THEN SectionErr("WeatherSectionNotFound")
     ELSE IF end_pos = 0 THEN SectionErr("WeatherSectionNotFound")
     ELSE IF city_end = 0 THEN SectionErr("MissingCityInSection")
     ELSE IF city = <<>> THEN SectionErr("MissingCityInSection")
     ELSE IF lu.panic THEN SectionErr("panic")
     ELSE [kind |-> "ok", city |-> city, last_update |-> lu.value,
           start_pos |-> start_pos, end_pos |-> end_pos]

\* WeatherSection::parse
WeatherSectionParse(content) ==
  LET start_pos == Find(content, START_SECTION_PREFIX)
      end_pos == FindFrom(content, WEATHER_END, start_pos)
      city_start == start_pos + Len(START_SECTION_PREFIX)
      city_end == Find(From(content, city_start), HTML_COMMENT_END)
      city == Trim(SubSeq(content, city_start, city_start + city_end - 2))
      lu == WeatherParseLastUpdate(SubSeq(content, start_pos, end_pos - 1))
  IN IF start_pos = 0 THEN SectionErr("WeatherSectionNotFound")
     ELSE IF end_pos = 0 THEN SectionErr("WeatherSectionNotFound")
     ELSE IF city_end = 0 THEN SectionErr("MissingCityInSection")
     ELSE IF city = <<>> THEN SectionErr("MissingCityInSection")
     ELSE IF lu.panic THEN SectionErr("panic")
     ELSE [kind |-> "ok", city |-> city, last_update |-> lu.value,
           start_pos |-> start_pos, end_pos |-> end_pos]

-----------------------------------------------------------------------------
(* SpecLocate: WeatherSection::parse applied to bounded documents *)

\* what an enumerated document is put together from
LocatePieces ==
  { <<"a">>, <<SP>>, START_SECTION_PREFIX, HTML_COMMENT_END, WEATHER_END,
    LAST_UPDATE_PREFIX \o <<"t1">> }

RECURSIVE PieceSeqs(_, _)
PieceSeqs(P, n) ==
  IF n = 0 THEN {<<>>}
  ELSE LET shorter == PieceSeqs(P, n - 1)
       IN shorter \cup {s \o p : s \in shorter, p \in P}

\* target identifiers: strings over a small alphabet, 1..MaxTarget characters
TargetChars == {"a", SP, "-", ">", "<!--END_SECTION:weather", "<!--LAST_WEATHER_UPDATE:"}

RECURSIVE Strings(_, _)
Strings(A, n) ==
  IF n = 0 THEN {<<>>}
  ELSE LET shorter == Strings(A, n - 1)
       IN shorter \cup {Append(s, c) : s \in shorter, c \in A}

Targets == {t \in Strings(TargetChars, MaxTarget) :
              t # <<>> /\ Occ(t, HTML_COMMENT_END) = {}}

\* the document "constructed with" a target: start marker, body, end marker
BuiltDoc(target, body) ==
  START_SECTION_PREFIX \o target \o HTML_COMMENT_END \o body \o WEATHER_END

BuiltBodies ==
  {<<>>, <<NL, "a", NL>>, <<NL>> \o LAST_UPDATE_PREFIX \o <<"t1">> \o HTML_COMMENT_END \o <<NL>>}

BuiltDocs == {BuiltDoc(t, b) : t \in Targets, b \in BuiltBodies}

\* section bodies whose last-update marker carries no valid timestamp:
\* closed around other text, closed around nothing, and never closed
BadStampBodies ==
  { <<NL>> \o LAST_UPDATE_PREFIX \o <<"a">> \o HTML_COMMENT_END \o <<NL>>,
    <<NL>> \o LAST_UPDATE_PREFIX \o HTML_COMMENT_END \o <<NL>>,
    <<NL>> \o LAST_UPDATE_PREFIX \o <<"t1", SP, "a">> \o HTML_COMMENT_END,
    <<NL>> \o LAST_UPDATE_PREFIX \o <<"t1", NL>>,
    <<NL>> \o LAST_UPDATE_PREFIX }

BadStampDocs == {BuiltDoc(<<"a">>, b) : b \in BadStampBodies}

LocateIdle == doc = <<>> /\ parsed = NoSection

NoSettings == [lang_count |-> 0, stop_at_other |-> FALSE, ignored |-> {}]
NoRows == [done |-> FALSE, at |-> <<>>]

RowsIdle == languages = <<>> /\ settings = NoSettings /\ rows = NoRows

GraphIdle == blocks = <<>> /\ percent = 0 /\ graph = <<>> /\ RowsIdle

\* the tasks that call fetch_weather: ServiceRunner's run and three others
Tasks == {"run", "c1", "c2", "c3"}

NoCache == [has |-> FALSE, val |-> 0, at |-> 0]
NoResult == [kind |-> "none", val |-> 0, at |-> 0, err |-> ""]
NoHist == [after |-> FALSE, within |-> FALSE]

FetchIdle ==
  /\ upW = 1
  /\ cache = NoCache
  /\ readers = {}
  /\ writer = "none"
  /\ fpc = [t \in Tasks |-> "idle"]
  /\ fcity = [t \in Tasks |-> <<>>]
  /\ fpend = [t \in Tasks |-> NoCache]
  /\ fres = [t \in Tasks |-> NoResult]
  /\ freq = [t \in Tasks |-> 0]
  /\ fhist = [t \in Tasks |-> NoHist]

NoWLoc == [section |-> NoSection, current_update |-> NoTime, new_content |-> <<>>]
NoWRes == [kind |-> "none", err |-> "", weather |-> 0, last_update |-> NoTime,
           current_update |-> NoTime]
NoKLoc == [stats |-> 0, content |-> <<>>, last_update |-> NoTime,
           current_update |-> NoTime, new_readme |-> <<>>]
NoKRes == [kind |-> "none", err |-> "", status |-> 0, last_update |-> NoTime,
           current_update |-> NoTime, was_updated |-> FALSE]
NoTg == [attempts |-> 0, result |-> "none", pc |-> "idle", chars |-> 0, bytes |-> 0,
         retry_attempts |-> 0, retry_delay |-> 0, last |-> "", err |-> "",
         oks |-> 0, sleeps |-> 0, started |-> 0]
NoCycleHist == [start |-> <<>>, read |-> <<>>, hasRead |-> FALSE, wrote |-> FALSE,
                prevDone |-> FALSE, prevOk |-> FALSE, prevFile |-> <<>>, prevVal |-> 0,
                wakaStarted |-> FALSE]

RunIdle ==
  /\ file = <<>>
  /\ tmp = <<>>
  /\ upK = 1
  /\ kcache = NoCache
  /\ rpc = "idle"
  /\ wloc = NoWLoc
  /\ wres = NoWRes
  /\ kloc = NoKLoc
  /\ kres = NoKRes
  /\ tg = NoTg
  /\ rres = "none"
  /\ runs = 0
  /\ kreq = 0
  /\ hist = NoCycleHist

LocateInit ==
  /\ doc \in PieceSeqs(LocatePieces, MaxPieces) \cup BuiltDocs \cup BadStampDocs
  /\ parsed = NoSection
  /\ GraphIdle
  /\ now = 0
  /\ FetchIdle
  /\ RunIdle

Locate ==
  /\ parsed.kind = "none"
  /\ parsed' = WeatherSectionParse(doc)
  /\ UNCHANGED <<doc, graphVars, now, fetchVars, runVars>>

LocateNext == Locate

SpecLocate == LocateInit /\ [][LocateNext]_vars

-----------------------------------------------------------------------------
(* Claims about the locator *)

\* the first weather start marker is closed and its target trims to nothing
EmptyTargetDeclared(content) ==
  LET start_pos == Find(content, START_SECTION_PREFIX)
      city_start == start_pos + Len(START_SECTION_PREFIX)
      city_end == Find(From(content, city_start), HTML_COMMENT_END)
  IN /\ start_pos # 0
     /\ city_end # 0
     /\ Trim(SubSeq(content, city_start, city_start + city_end - 2)) = <<>>

\* C4: a document whose first weather start marker declares an empty target
\* is rejected with MissingCityInSection, whatever else the document holds.
C4_EmptyTargetAlwaysMissingCity ==
  (parsed.kind # "none" /\ EmptyTargetDeclared(doc))
    => parsed.kind = "MissingCityInSection"

TargetBreaksTimestamp(t) ==
  /\ t[Len(t)] = "<!--END_SECTION:weather"
  /\ Occ(t, LAST_UPDATE_PREFIX) # {}

-----------------------------------------------------------------------------
(* Template::make_graph *)

GRAPH_WIDTH == 25

\* percents above 100 that the model also tries (min() clamps them)
MaxOver == 50

Repeat(c, n) == [i \in 1..n |-> c]

CountOf(s, c) == Cardinality({i \in 1..Len(s) : s[i] = c})

\* Two-decimal percents at which the f64 product percent / 100.0 * 25.0 falls
\* just below the exact value and the truncation gives one less than exact
\* arithmetic does (computed with IEEE-754 doubles).
F64Below == {1450, 2850, 5650, 5750}

\* make_graph rounding to the nearest cell (+ 0.5 where the code adds 0.125)
MakeGraphRoundNearest(blks, pct) ==
  LET P == IF pct > 100 * 100 THEN 100 * 100 ELSE pct
      full_blocks == (P + 200) \div 400
      head == Repeat(blks[4], full_blocks)
  IN IF Len(blks) # 4 THEN <<"Invalid blocks configuration">>
     ELSE head \o Repeat(blks[1], GRAPH_WIDTH - Len(head))

\* the bar with three steps to a cell: full = floor(proportion + 1/6) and
\* remainder = floor((proportion - full) * 3 + 1/2), in exact arithmetic
MakeGraphThirds(blks, pct) ==
  LET P == IF pct > 100 * 100 THEN 100 * 100 ELSE pct
      full_blocks == (3 * P + 200) \div 1200
      remainder == (3 * P - 1200 * full_blocks + 200) \div 400
      head == Repeat(blks[4], full_blocks)
             \o (IF remainder > 0 /\ remainder < Len(blks)
                   THEN <<blks[remainder + 1]>> ELSE <<>>)
  IN IF Len(blks) # 4 THEN <<"Invalid blocks configuration">>
     ELSE head \o Repeat(blks[1], GRAPH_WIDTH - Len(head))

\* Template::make_graph, with pct = percent * 100.  proportion is P / 400.
\* make_graph with the guard turned into blocks.len() < 4: a glyph set of
\* more than four characters is drawn with
MakeGraphAtLeastFour(blks, pct) ==
  LET P == IF pct > 100 * 100 THEN 100 * 100 ELSE pct
      full_blocks == (P + 50) \div 400
      exact == (P - 400 * full_blocks + 50) \div 100
      remainder == IF pct \in F64Below THEN exact - 1 ELSE exact
      head == Repeat(blks[4], full_blocks)
             \o (IF remainder > 0 /\ remainder < Len(blks)
                   THEN <<blks[remainder + 1]>> ELSE <<>>)
  IN IF Len(blks) < 4 THEN <<"Invalid blocks configuration">>
     ELSE head \o Repeat(blks[1], GRAPH_WIDTH - Len(head))

MakeGraphFrom(blks, pct) ==
  LET P == IF pct > 100 * 100 THEN 100 * 100 ELSE pct
      full_blocks == (P + 50) \div 400
      exact == (P - 400 * full_blocks + 50) \div 100
      remainder == IF pct \in F64Below THEN exact - 1 ELSE exact
      head == Repeat(blks[4], full_blocks)
             \o (IF remainder > 0 /\ remainder < Len(blks)
                   THEN <<blks[remainder + 1]>> ELSE <<>>)
  IN IF Len(blks) # 4 THEN <<"Invalid blocks configuration">>
     ELSE head \o Repeat(blks[1], GRAPH_WIDTH - Len(head))

ValidBlocks == <<"b0", "b1", "b2", "b3">>
BlockConfigs == {ValidBlocks, <<"b0", "b1", "b3">>}

GraphInit ==
  /\ blocks \in BlockConfigs
  /\ percent \in 0..(100 * 100 + MaxOver)
  /\ graph = <<>>
  /\ RowsIdle
  /\ LocateIdle
  /\ now = 0
  /\ FetchIdle
  /\ RunIdle

MakeGraph ==
  /\ graph = <<>>
  /\ graph' = MakeGraphFrom(blocks, percent)
  /\ UNCHANGED <<blocks, percent, languages, settings, rows>>
  /\ UNCHANGED <<locateVars, now, fetchVars, runVars>>

GraphNext == MakeGraph

SpecGraph == GraphInit /\ [][GraphNext]_vars

\* C7 as stated: 0 % is 25 empty glyphs, 100 % is 25 full glyphs and 50 %
\* holds exactly 13 full glyphs.
C7_HalfIsThirteenFull ==
  (graph # <<>> /\ blocks = ValidBlocks) =>
    /\ percent = 0 => graph = Repeat("b0", GRAPH_WIDTH)
    /\ percent = 100 * 100 => graph = Repeat("b3", GRAPH_WIDTH)
    /\ percent = 50 * 100 => CountOf(graph, "b3") = 13

\* C7 amended: 0 % is 25 empty glyphs, 100 % is 25 full glyphs and 50 % is
\* 12 full glyphs, the glyph blocks[2], then 12 empty glyphs.
C7_HalfIsTwelveFull ==
  (graph # <<>> /\ blocks = ValidBlocks) =>
    /\ percent = 0 => graph = Repeat("b0", GRAPH_WIDTH)
    /\ percent = 100 * 100 => graph = Repeat("b3", GRAPH_WIDTH)
    /\ percent = 50 * 100 =>
         graph = Repeat("b3", 12) \o <<"b2">> \o Repeat("b0", 12)

\* C7 witness: the bar for 50 % has been rendered with a valid glyph set
C7_Witness ==
  /\ blocks = ValidBlocks /\ percent = 50 * 100
  /\ Len(graph) = GRAPH_WIDTH /\ CountOf(graph, "b3") = 12

-----------------------------------------------------------------------------
(* WeatherService::fetch_weather *)

\* Duration::from_secs(300), the cache_duration ServiceRunner::new passes
CacheDuration == 300

\* the provider's snapshots
Snapshots == {1, 2}

\* the read path's test with the comparison turned round
CacheFreshReversed(c, t) == c.has /\ (t - c.at) > CacheDuration

\* if let Some((info, time)) = cache && Utc::now() - time < cache_duration
CacheFresh(c, t) == c.has /\ (t - c.at) < CacheDuration

HttpStatuses == {200, 204, 429, 500}
HttpBodies == {"ok", "bad_json", "bad_cod", "no_weather"}

\* what fetch_weather makes of a response: "" when it accepts it
WeatherResponseError(sent, status, body) ==
  IF ~sent THEN "SendFailed"
  ELSE IF status = 200 THEN
         (IF body = "bad_json" THEN "ParseFailed"
          ELSE IF body = "bad_cod" THEN "InvalidResponse"
          ELSE IF body = "no_weather" THEN "InvalidResponse"
          ELSE "")
  ELSE IF status = 429 THEN "RateLimitExceeded"
  ELSE "ApiError"

Failed(e) == [kind |-> "err", val |-> 0, at |-> 0, err |-> e]

\* self.cache.read().await
F_AcquireRead(t) ==
  /\ fpc[t] = "read_lock"
  /\ writer = "none"
  /\ readers' = readers \cup {t}
  /\ fpc' = [fpc EXCEPT ![t] = "check"]
  /\ UNCHANGED <<now, upW, cache, writer, fcity, fpend, fres, freq, fhist>>
  /\ UNCHANGED <<locateVars, graphVars, runVars>>

\* which successful calls have returned, and whether the cache is read inside
\* the freshness window of every value they returned
HistAt(t) ==
  LET ok == {u \in Tasks : fres[u].kind \in {"cached", "fetched"}}
  IN [after |-> ok # {},
      within |-> \A u \in ok : (now - fres[u].at) < CacheDuration]

\* the if-let with its read guard bound to a name that lives to the end of
\* the function: the guard is released only where the function returns
F_CheckKeepsGuard(t) ==
  /\ fpc[t] = "check"
  /\ fhist' = [fhist EXCEPT ![t] = HistAt(t)]
  /\ IF CacheFresh(cache, now)
       THEN /\ fres' = [fres EXCEPT ![t] =
                          [kind |-> "cached", val |-> cache.val, at |-> cache.at, err |-> ""]]
            /\ fpc' = [fpc EXCEPT ![t] = "done"]
            /\ readers' = readers \ {t}
       ELSE IF Trim(fcity[t]) = <<>>
       THEN /\ fres' = [fres EXCEPT ![t] = Failed("InvalidCity")]
            /\ fpc' = [fpc EXCEPT ![t] = "done"]
            /\ readers' = readers \ {t}
       ELSE /\ fpc' = [fpc EXCEPT ![t] = "send"]
            /\ UNCHANGED <<fres, readers>>
  /\ UNCHANGED <<now, upW, cache, writer, fcity, fpend, freq>>
  /\ UNCHANGED <<locateVars, graphVars, runVars>>

\* the body of the if-let, under the read lock; then the city check
F_Check(t) ==
  /\ fpc[t] = "check"
  /\ readers' = readers \ {t}
  /\ fhist' = [fhist EXCEPT ![t] = HistAt(t)]
  /\ IF CacheFresh(cache, now)
       THEN /\ fres' = [fres EXCEPT ![t] =
                          [kind |-> "cached", val |-> cache.val, at |-> cache.at, err |-> ""]]
            /\ fpc' = [fpc EXCEPT ![t] = "done"]
       ELSE IF Trim(fcity[t]) = <<>>
       THEN /\ fres' = [fres EXCEPT ![t] = Failed("InvalidCity")]
            /\ fpc' = [fpc EXCEPT ![t] = "done"]
       ELSE /\ fpc' = [fpc EXCEPT ![t] = "send"]
            /\ UNCHANGED fres
  /\ UNCHANGED <<now, upW, cache, writer, fcity, fpend, freq>>
  /\ UNCHANGED <<locateVars, graphVars, runVars>>

\* self.client.get(url).send(): the request leaves
F_Send(t) ==
  /\ fpc[t] = "send"
  /\ freq' = [freq EXCEPT ![t] = @ + 1]
  /\ fpc' = [fpc EXCEPT ![t] = "await"]
  /\ UNCHANGED <<now, upW, cache, readers, writer, fcity, fpend, fres, fhist>>
  /\ UNCHANGED <<locateVars, graphVars, runVars>>

\* the response arrives; on success the pair to store is built.  The value
\* of an assignment is evaluated before its place, so Utc::now() is read
\* before the write lock is awaited.
F_Respond(t) ==
  /\ fpc[t] = "await"
  /\ \E sent \in BOOLEAN, status \in HttpStatuses, body \in HttpBodies :
       LET e == WeatherResponseError(sent, status, body)
       IN IF e # ""
            THEN /\ fres' = [fres EXCEPT ![t] = Failed(e)]
                 /\ fpc' = [fpc EXCEPT ![t] = "done"]
                 /\ UNCHANGED fpend
            ELSE /\ fpend' = [fpend EXCEPT ![t] = [has |-> TRUE, val |-> upW, at |-> now]]
                 /\ fpc' = [fpc EXCEPT ![t] = "write_lock"]
                 /\ UNCHANGED fres
  /\ UNCHANGED <<now, upW, cache, readers, writer, fcity, freq, fhist>>
  /\ UNCHANGED <<locateVars, graphVars, runVars>>

\* self.cache.write().await
F_AcquireWrite(t) ==
  /\ fpc[t] = "write_lock"
  /\ writer = "none"
  /\ readers = {}
  /\ writer' = t
  /\ fpc' = [fpc EXCEPT ![t] = "store"]
  /\ UNCHANGED <<now, upW, cache, readers, fcity, fpend, fres, freq, fhist>>
  /\ UNCHANGED <<locateVars, graphVars, runVars>>

\* *guard = Some(pair); the guard drops; Ok(weather_info)
F_Store(t) ==
  /\ fpc[t] = "store"
  /\ cache' = fpend[t]
  /\ writer' = "none"
  /\ fres' = [fres EXCEPT ![t] =
                [kind |-> "fetched", val |-> fpend[t].val, at |-> fpend[t].at, err |-> ""]]
  /\ fpc' = [fpc EXCEPT ![t] = "done"]
  /\ UNCHANGED <<now, upW, readers, fcity, fpend, freq, fhist>>
  /\ UNCHANGED <<locateVars, graphVars, runVars>>

FetchStep(t) ==
  \/ F_AcquireRead(t)
  \/ F_Check(t)
  \/ F_Send(t)
  \/ F_Respond(t)
  \/ F_AcquireWrite(t)
  \/ F_Store(t)

\* the provider's data changes
UpstreamChange ==
  /\ \E v \in Snapshots \ {upW} : upW' = v
  /\ UNCHANGED <<now, cache, readers, writer, fpc, fcity, fpend, fres, freq, fhist>>
  /\ UNCHANGED <<locateVars, graphVars, runVars>>

-----------------------------------------------------------------------------
(* SpecCache: concurrent fetch_weather calls on one WeatherService *)

Callers == {"c1", "c2", "c3"}

CacheInit ==
  /\ now = 0
  /\ FetchIdle
  /\ LocateIdle
  /\ GraphIdle
  /\ RunIdle

\* a task calls fetch_weather(city)
C_Call(t) ==
  /\ fpc[t] = "idle"
  /\ \E city \in {<<"a">>, <<SP>>} : fcity' = [fcity EXCEPT ![t] = city]
  /\ fpc' = [fpc EXCEPT ![t] = "read_lock"]
  /\ UNCHANGED <<now, upW, cache, readers, writer, fpend, fres, freq, fhist>>
  /\ UNCHANGED <<locateVars, graphVars, runVars>>

\* the seconds the clock is looked at: the first few, and the same ones
\* all but a second of a freshness window later
CacheClock ==
  (0..MaxClock) \cup ((CacheDuration - 1)..(CacheDuration - 1 + MaxClock))

\* time passes: a second, or all but a second of the freshness window
C_Tick ==
  /\ \E d \in {1, CacheDuration - 1} :
       /\ now + d \in CacheClock
       /\ now' = now + d
  /\ UNCHANGED <<fetchVars, locateVars, graphVars, runVars>>

CacheNext ==
  \/ \E t \in Callers : C_Call(t)
  \/ \E t \in Callers : F_AcquireRead(t)
  \/ \E t \in Callers : F_Check(t)
  \/ \E t \in Callers : F_Send(t)
  \/ \E t \in Callers : F_Respond(t)
  \/ \E t \in Callers : F_AcquireWrite(t)
  \/ \E t \in Callers : F_Store(t)
  \/ UpstreamChange
  \/ C_Tick

SpecCache == CacheInit /\ [][CacheNext]_vars

-----------------------------------------------------------------------------
(* Claims about the cache *)

-----------------------------------------------------------------------------
(* The patch cycles: files, clock, rendering *)

\* cycles per behaviour
MaxRuns == 2

\* what a failed write_all can leave behind is a proper prefix of the data;
\* three cuts stand for them: nothing, half, all but the last token
Prefixes(data) ==
  {SubSeq(data, 1, n) : n \in {0, Len(data) \div 2, Len(data) - 1} \cap (0..(Len(data) - 1))}

\* WeatherInfo::format_weather_text: the body for snapshot v, one token
WeatherBodies == <<"weather1", "weather2">>
FormatWeatherText(v) == <<WeatherBodies[v]>>

\* WeatherInfo::format_readme
FormatReadme(v, t) ==
  LAST_UPDATE_PREFIX \o <<Stamp(t)>> \o HTML_COMMENT_END \o <<NL>> \o FormatWeatherText(v)

\* WeatherService::update_readme's new_content.  start_pos and end_pos come
\* from the section located earlier; content is the file as read now.
WeatherNewContent(content, section, v, t) ==
  SubSeq(content, 1, section.start_pos - 1)
    \o START_SECTION_PREFIX \o section.city \o HTML_COMMENT_END \o <<NL>>
    \o FormatReadme(v, t)
    \o From(content, section.end_pos + Len(WEATHER_END))

\* the two slices of update_readme are inside content
WeatherSlicesOk(content, section) ==
  /\ section.start_pos - 1 <= Len(content)
  /\ section.end_pos + Len(WEATHER_END) - 1 <= Len(content)

(* WakaTime: the markers of a section named waka, and code_lang txt; both
   names are read from urdekcah.toml *)
WAKA_START == <<"<!--START_SECTION:waka">> \o HTML_COMMENT_END
WAKA_END == <<"<!--END_SECTION:waka">> \o HTML_COMMENT_END
WAKA_LAST_UPDATE_PREFIX == <<"<!--LAST_WAKA_UPDATE:">>
\* the three-backtick fence line, one token
FENCE == "fence"
CODE_LANG == "txt"

\* Template::render: the fenced block for snapshot v, its rows as one token
StatsBodies == <<"stats1", "stats2">>
Render(v) == <<FENCE, CODE_LANG, NL, StatsBodies[v], NL, FENCE>>

\* WakaTimeService::parse_last_update, over the whole README; the same
\* unwrap_or(content.len()) as in the weather crate
WakaParseLastUpdate(content) ==
  LET update_pos == Find(content, WAKA_LAST_UPDATE_PREFIX)
      timestamp_start == update_pos + Len(WAKA_LAST_UPDATE_PREFIX)
      rel == Find(From(content, timestamp_start), HTML_COMMENT_END)
  IN IF update_pos = 0 THEN [panic |-> FALSE, value |-> NoTime]
     ELSE IF rel = 0 THEN [panic |-> TRUE, value |-> NoTime]
     ELSE [panic |-> FALSE,
           value |-> ParseDateTime(
                       Trim(SubSeq(content, timestamp_start, timestamp_start + rel - 2)))]

\* WakaTimeService::update_readme's replacement
WakaReplacement(content, t) ==
  WAKA_START \o <<NL>> \o WAKA_LAST_UPDATE_PREFIX \o <<Stamp(t)>> \o HTML_COMMENT_END
    \o <<NL, FENCE, CODE_LANG, NL>> \o content \o <<FENCE, NL>> \o WAKA_END

\* where an end marker can close a match that opens at the first start
\* marker: [\s\S]+ needs one character between the two
MatchEnds(readme, start, end) ==
  LET s == Find(readme, start)
  IN IF s = 0 THEN {} ELSE {e \in Occ(readme, end) : e >= s + Len(start) + 1}

\* Regex::replace of start[\s\S]+?end: the first end marker closes the match
ReplaceLazy(readme, start, end, replacement) ==
  LET s == Find(readme, start)
      ends == MatchEnds(readme, start, end)
  IN IF ends = {} THEN readme
     ELSE SubSeq(readme, 1, s - 1) \o replacement \o From(readme, Min(ends) + Len(end))

\* Regex::replace of start[\s\S]+end: the match is leftmost and greedy, so
\* the last end marker of the document closes it
ReplaceGreedy(readme, start, end, replacement) ==
  LET s == Find(readme, start)
      ends == MatchEnds(readme, start, end)
  IN IF ends = {} THEN readme
     ELSE SubSeq(readme, 1, s - 1) \o replacement \o From(readme, Max(ends) + Len(end))

CycleStart(h, f) ==
  [h EXCEPT !.start = f, !.read = <<>>, !.hasRead = FALSE, !.wrote = FALSE]

-----------------------------------------------------------------------------
(* WeatherService::run *)

WErr(e) == [NoWRes EXCEPT !.kind = "err", !.err = e]

\* get_weather_section: read_to_string, then WeatherSection::parse; on
\* success run goes on to fetch_weather(&section.city)
W_GetSection ==
  /\ rpc = "w_start"
  /\ \E readOk \in BOOLEAN :
       LET section == WeatherSectionParse(file)
       IN IF ~readOk
            THEN /\ wres' = WErr("ReadFailed")
                 /\ rpc' = "w_done"
                 /\ hist' = CycleStart(hist, file)
                 /\ UNCHANGED <<wloc, fpc, fcity>>
            ELSE /\ hist' = [CycleStart(hist, file) EXCEPT !.read = file, !.hasRead = TRUE]
                 /\ IF section.kind = "ok"
                      THEN /\ wloc' = [wloc EXCEPT !.section = section]
                           /\ fpc' = [fpc EXCEPT !["run"] = "read_lock"]
                           /\ fcity' = [fcity EXCEPT !["run"] = section.city]
                           /\ rpc' = "w_fetch"
                           /\ UNCHANGED wres
                      ELSE IF section.kind = "panic"
                      THEN /\ rpc' = "panicked"
                           /\ UNCHANGED <<wloc, wres, fpc, fcity>>
                      ELSE /\ wres' = WErr(section.kind)
                           /\ rpc' = "w_done"
                           /\ UNCHANGED <<wloc, fpc, fcity>>
  /\ UNCHANGED <<file, tmp, upK, kcache, kloc, kres, tg, rres, runs, kreq>>
  /\ UNCHANGED <<now, upW, cache, readers, writer, fpend, fres, freq, fhist>>
  /\ UNCHANGED <<locateVars, graphVars>>

\* fetch_weather has returned: `?`, then current_update = Utc::now()
W_Fetched ==
  /\ rpc = "w_fetch"
  /\ fpc["run"] = "done"
  /\ fpc' = [fpc EXCEPT !["run"] = "idle"]
  /\ fres' = [fres EXCEPT !["run"] = NoResult]
  /\ IF fres["run"].kind = "err"
       THEN /\ wres' = WErr(fres["run"].err)
            /\ rpc' = "w_done"
            /\ UNCHANGED wloc
       ELSE /\ wres' = [wres EXCEPT !.weather = fres["run"].val]
            /\ wloc' = [wloc EXCEPT !.current_update = now]
            /\ rpc' = "w_update"
  /\ UNCHANGED <<file, tmp, upK, kcache, kloc, kres, tg, rres, runs, kreq, hist>>
  /\ UNCHANGED <<now, upW, cache, readers, writer, fcity, fpend, freq, fhist>>
  /\ UNCHANGED <<locateVars, graphVars>>

\* update_readme: read_to_string again, format_readme, new_content
W_UpdateRead ==
  /\ rpc = "w_update"
  /\ \E readOk \in BOOLEAN :
       IF ~readOk
         THEN /\ wres' = WErr("ReadFailed")
              /\ rpc' = "w_done"
              /\ UNCHANGED wloc
         ELSE IF ~WeatherSlicesOk(file, wloc.section)
         THEN /\ rpc' = "panicked"
              /\ UNCHANGED <<wloc, wres>>
         ELSE /\ wloc' = [wloc EXCEPT !.new_content =
                            WeatherNewContent(file, wloc.section, wres.weather, now)]
              /\ rpc' = "w_write_tmp"
              /\ UNCHANGED wres
  /\ UNCHANGED <<file, tmp, upK, kcache, kloc, kres, tg, rres, runs, kreq, hist>>
  /\ UNCHANGED <<now, fetchVars, locateVars, graphVars>>

\* fs::write(&temp_path, &new_content)
W_WriteTmp ==
  /\ rpc = "w_write_tmp"
  /\ \/ /\ tmp' = wloc.new_content
        /\ rpc' = "w_rename"
        /\ UNCHANGED wres
     \/ /\ tmp' \in {tmp} \cup Prefixes(wloc.new_content)
        /\ wres' = WErr("WriteFailed")
        /\ rpc' = "w_done"
  /\ UNCHANGED <<file, upK, kcache, wloc, kloc, kres, tg, rres, runs, kreq, hist>>
  /\ UNCHANGED <<now, fetchVars, locateVars, graphVars>>

\* fs::rename(&temp_path, &readme_path); Ok(UpdateResult {..})
W_Rename ==
  /\ rpc = "w_rename"
  /\ \/ /\ file' = tmp
        /\ tmp' = <<>>
        /\ hist' = [hist EXCEPT !.wrote = TRUE]
        /\ wres' = [wres EXCEPT !.kind = "ok",
                                !.last_update = wloc.section.last_update,
                                !.current_update = wloc.current_update]
     \/ /\ wres' = WErr("RenameFailed")
        /\ UNCHANGED <<file, tmp, hist>>
  /\ rpc' = "w_done"
  /\ UNCHANGED <<upK, kcache, wloc, kloc, kres, tg, rres, runs, kreq>>
  /\ UNCHANGED <<now, fetchVars, locateVars, graphVars>>

-----------------------------------------------------------------------------
(* WakaTimeService::run *)

\* an ApiError carries the response's status in its message
KErr(e) == [NoKRes EXCEPT !.kind = "err", !.err = e]

WakaBodies == {"ok", "bad_json", "bad_data"}

\* what fetch_stats makes of a response: "" when it accepts it
WakaResponseError(sent, status, body) ==
  IF sent = "timeout" THEN "TimeoutError"
  ELSE IF sent = "error" THEN "HttpError"
  ELSE IF status \notin {200, 204} THEN "ApiError"
  ELSE IF body = "bad_json" THEN "ParseError"
  ELSE IF body = "bad_data" THEN "ParseError"
  ELSE ""

\* fetch_stats: build_headers, then the request leaves
K_Send ==
  /\ rpc = "k_start"
  /\ kreq' = kreq + 1
  /\ hist' = [CycleStart(hist, file) EXCEPT !.wakaStarted = TRUE]
  /\ rpc' = "k_await"
  /\ UNCHANGED <<file, tmp, upK, kcache, wloc, wres, kloc, kres, tg, rres, runs>>
  /\ UNCHANGED <<now, fetchVars, locateVars, graphVars>>

\* the response; on success the cache is written and prepare_content renders
K_Respond ==
  /\ rpc = "k_await"
  /\ \E sent \in {"ok", "timeout", "error"}, status \in HttpStatuses, body \in WakaBodies :
       LET e == WakaResponseError(sent, status, body)
       IN IF e # ""
            THEN /\ kres' = [KErr(e) EXCEPT !.status = IF e = "ApiError" THEN status ELSE 0]
                 /\ rpc' = "k_done"
                 /\ UNCHANGED <<kcache, kloc>>
            ELSE /\ kcache' = [has |-> TRUE, val |-> upK, at |-> now]
                 /\ kloc' = [kloc EXCEPT !.stats = upK, !.content = Render(upK)]
                 /\ rpc' = "k_update"
                 /\ UNCHANGED kres
  /\ UNCHANGED <<file, tmp, upK, wloc, wres, tg, rres, runs, kreq, hist>>
  /\ UNCHANGED <<now, fetchVars, locateVars, graphVars>>

\* update_readme up to the comparison: read_to_string, parse_last_update,
\* Utc::now(), replacement, re.replace, was_updated
K_UpdateRead ==
  /\ rpc = "k_update"
  /\ \E readOk \in BOOLEAN :
       LET last == WakaParseLastUpdate(file)
           new_readme == ReplaceGreedy(file, WAKA_START, WAKA_END,
                                       WakaReplacement(kloc.content, now))
           was_updated == new_readme # file
       IN IF ~readOk
            THEN /\ kres' = KErr("IoError")
                 /\ rpc' = "k_done"
                 /\ UNCHANGED <<kloc, hist>>
            ELSE /\ hist' = [hist EXCEPT !.read = file, !.hasRead = TRUE]
                 /\ IF last.panic
                      THEN /\ rpc' = "panicked"
                           /\ UNCHANGED <<kloc, kres>>
                      ELSE /\ kloc' = [kloc EXCEPT !.last_update = last.value,
                                                   !.current_update = now,
                                                   !.new_readme = new_readme]
                           /\ IF was_updated
                                THEN /\ rpc' = "k_create"
                                     /\ UNCHANGED kres
                                ELSE /\ rpc' = "k_done"
                                     /\ kres' = [NoKRes EXCEPT !.kind = "ok",
                                                   !.last_update = last.value,
                                                   !.current_update = now,
                                                   !.was_updated = FALSE]
  /\ UNCHANGED <<file, tmp, upK, kcache, wloc, wres, tg, rres, runs, kreq>>
  /\ UNCHANGED <<now, fetchVars, locateVars, graphVars>>

\* fs::write(path, ..), first half: File::create opens README.md itself
\* with truncation
K_Create ==
  /\ rpc = "k_create"
  /\ \/ /\ file' = <<>>
        /\ rpc' = "k_write"
        /\ UNCHANGED kres
     \/ /\ kres' = KErr("IoError")
        /\ rpc' = "k_done"
        /\ UNCHANGED file
  /\ UNCHANGED <<tmp, upK, kcache, wloc, wres, kloc, tg, rres, runs, kreq, hist>>
  /\ UNCHANGED <<now, fetchVars, locateVars, graphVars>>

\* fs::write(path, ..), second half: write_all, then Ok(UpdateResult {..})
K_WriteAll ==
  /\ rpc = "k_write"
  /\ \/ /\ file' = kloc.new_readme
        /\ hist' = [hist EXCEPT !.wrote = TRUE]
        /\ kres' = [NoKRes EXCEPT !.kind = "ok",
                                  !.last_update = kloc.last_update,
                                  !.current_update = kloc.current_update,
                                  !.was_updated = TRUE]
     \/ /\ file' \in Prefixes(kloc.new_readme)
        /\ kres' = KErr("IoError")
        /\ UNCHANGED hist
  /\ rpc' = "k_done"
  /\ UNCHANGED <<tmp, upK, kcache, wloc, wres, kloc, tg, rres, runs, kreq>>
  /\ UNCHANGED <<now, fetchVars, locateVars, graphVars>>

\* the statistics the service reports change; the program samples them
\* when the response is produced
UpstreamChangeK ==
  /\ rpc = "k_await"
  /\ \E v \in Snapshots \ {upK} : upK' = v
  /\ UNCHANGED <<file, tmp, kcache, rpc, wloc, wres, kloc, kres, tg, rres, runs, kreq, hist>>
  /\ UNCHANGED <<now, fetchVars, locateVars, graphVars>>

\* a second passes: while a request is in flight, between two runs, or
\* between run's Utc::now() and the Utc::now() of format_readme
Tick ==
  /\ \/ rpc \in {"k_await", "tg_w", "tg_k", "w_done", "k_done", "r_done", "w_update"}
     \/ rpc = "w_fetch" /\ fpc["run"] = "await"
  /\ now < MaxClock
  /\ now' = now + 1
  /\ UNCHANGED <<fetchVars, locateVars, graphVars, runVars>>

-----------------------------------------------------------------------------
(* SpecWaka: WakaTimeService::run, cycle after cycle, on one README.md *)

MaxFill == 1

Fill == PieceSeqs({<<"a">>}, MaxFill)

WakaSectionBodies ==
  { <<>>, <<NL>>, <<"a">>,
    <<NL>> \o WAKA_LAST_UPDATE_PREFIX \o <<Stamp(0)>> \o HTML_COMMENT_END \o <<NL>>,
    <<NL>> \o WAKA_LAST_UPDATE_PREFIX \o <<Stamp(0)>> }

WakaSections ==
  {<<>>} \cup {WAKA_START \o b \o WAKA_END : b \in WakaSectionBodies}
         \cup {WAKA_START \o b : b \in WakaSectionBodies}

\* README files with a last-update comment in front of the section
StrayStampDocs ==
  {WAKA_LAST_UPDATE_PREFIX \o <<Stamp(2)>> \o HTML_COMMENT_END \o <<NL>>
     \o WAKA_START \o b \o WAKA_END :
     b \in {<<"a">>,
            <<NL>> \o WAKA_LAST_UPDATE_PREFIX \o <<Stamp(0)>> \o HTML_COMMENT_END \o <<NL>>}}

WakaDocs ==
  {pre \o sec \o post \o again \o last :
     pre \in Fill, sec \in WakaSections, post \in Fill,
     again \in {<<>>, WAKA_END}, last \in Fill} \cup StrayStampDocs

WakaInit ==
  /\ file \in WakaDocs
  /\ tmp = <<>>
  /\ upK = 1
  /\ kcache = NoCache
  /\ rpc = "k_start"
  /\ wloc = NoWLoc
  /\ wres = NoWRes
  /\ kloc = NoKLoc
  /\ kres = NoKRes
  /\ tg = NoTg
  /\ rres = "none"
  /\ runs = 1
  /\ kreq = 0
  /\ hist = NoCycleHist
  /\ now = 1
  /\ FetchIdle
  /\ LocateIdle
  /\ GraphIdle

\* the next scheduled run calls WakaTimeService::run again
K_Again ==
  /\ rpc = "k_done"
  /\ runs < MaxRuns
  /\ runs' = runs + 1
  /\ hist' = [hist EXCEPT !.prevDone = TRUE,
                          !.prevOk = (kres.kind = "ok"),
                          !.prevFile = file,
                          !.prevVal = kloc.stats]
  /\ kloc' = NoKLoc
  /\ kres' = NoKRes
  /\ rpc' = "k_start"
  /\ UNCHANGED <<file, tmp, upK, kcache, wloc, wres, tg, rres, kreq>>
  /\ UNCHANGED <<now, fetchVars, locateVars, graphVars>>

WakaNext ==
  \/ K_Send
  \/ K_Respond
  \/ K_UpdateRead
  \/ K_Create
  \/ K_WriteAll
  \/ K_Again
  \/ UpstreamChangeK
  \/ Tick

SpecWaka == WakaInit /\ [][WakaNext]_vars

-----------------------------------------------------------------------------
(* The WakaTime patcher against the patch contract *)

\* the section as the contract locates it in a document: the first start
\* marker and the first end marker after it; 0 when there is none
LocatedEnd(d) ==
  IF Find(d, WAKA_START) = 0 THEN 0
  ELSE FindFrom(d, WAKA_END, Find(d, WAKA_START) + Len(WAKA_START))

EndsWith(d, suffix) ==
  /\ Len(suffix) <= Len(d)
  /\ SubSeq(d, Len(d) - Len(suffix) + 1, Len(d)) = suffix

\* C1: a second WakaTimeService::run on the document the first one left,
\* with the statistics unchanged, reports was_updated = false and leaves the
\* document as the first run left it, whatever time passed in between
C1_SecondCycleChangesNothing ==
  ( /\ rpc = "k_done"
    /\ hist.prevDone /\ hist.prevOk
    /\ kres.kind = "ok"
    /\ kloc.stats = hist.prevVal
    /\ hist.start = hist.prevFile )
  => (kres.was_updated = FALSE /\ file = hist.prevFile)

\* C2: when the section is located in the document read, the document
\* written has the same text before the start marker and the same text
\* after the end of the end marker
C2_FramePreserved ==
  ( /\ rpc = "k_done"
    /\ kres.kind = "ok" /\ kres.was_updated
    /\ LocatedEnd(hist.read) # 0 )
  => LET s == Find(hist.read, WAKA_START)
         e == LocatedEnd(hist.read)
     IN /\ SubSeq(file, 1, s - 1) = SubSeq(hist.read, 1, s - 1)
        /\ Find(file, WAKA_START) = s
        /\ EndsWith(file, From(hist.read, e + Len(WAKA_END)))
        /\ Len(file) - Len(From(hist.read, e + Len(WAKA_END))) + 1
             = LocatedEnd(file) + Len(WAKA_END)

\* C8: from the moment the cycle has read the document, its path holds the
\* whole document read or the whole new document
C8_DocumentPathAlwaysWhole ==
  (hist.hasRead /\ rpc \in {"k_create", "k_write", "k_done"})
  => (file = hist.read \/ file = kloc.new_readme)

\* C9: a cycle that ends in an error leaves the document as it found it
C9_ErrorLeavesDocument ==
  (rpc = "k_done" /\ kres.kind = "err") => file = hist.start

-----------------------------------------------------------------------------
(* SpecWeather: WeatherService::run, cycle after cycle, on one README.md *)

WeatherSectionBodies ==
  { <<>>, <<"a">>,
    <<NL>> \o LAST_UPDATE_PREFIX \o <<Stamp(0)>> \o HTML_COMMENT_END \o <<NL, "a">>,
    <<NL>> \o LAST_UPDATE_PREFIX \o <<Stamp(0)>> }

WeatherCities == {<<"a">>, <<SP>>}

WeatherSections ==
  {<<>>}
    \cup {START_SECTION_PREFIX \o c \o HTML_COMMENT_END \o b \o WEATHER_END :
            c \in WeatherCities, b \in WeatherSectionBodies}
    \cup {START_SECTION_PREFIX \o c \o HTML_COMMENT_END \o b :
            c \in WeatherCities, b \in WeatherSectionBodies}

WeatherDocs ==
  {pre \o sec \o post : pre \in Fill, sec \in WeatherSections, post \in Fill}

WeatherInit ==
  /\ file \in WeatherDocs
  /\ tmp = <<>>
  /\ upK = 1
  /\ kcache = NoCache
  /\ rpc = "w_start"
  /\ wloc = NoWLoc
  /\ wres = NoWRes
  /\ kloc = NoKLoc
  /\ kres = NoKRes
  /\ tg = NoTg
  /\ rres = "none"
  /\ runs = 1
  /\ kreq = 0
  /\ hist = NoCycleHist
  /\ now = 1
  /\ FetchIdle
  /\ LocateIdle
  /\ GraphIdle

\* the same service's run is called again
W_Again ==
  /\ rpc = "w_done"
  /\ runs < MaxRuns
  /\ runs' = runs + 1
  /\ hist' = [hist EXCEPT !.prevDone = TRUE,
                          !.prevOk = (wres.kind = "ok"),
                          !.prevFile = file,
                          !.prevVal = wres.weather]
  /\ wloc' = NoWLoc
  /\ wres' = NoWRes
  /\ rpc' = "w_start"
  /\ UNCHANGED <<file, tmp, upK, kcache, kloc, kres, tg, rres, kreq>>
  /\ UNCHANGED <<now, fetchVars, locateVars, graphVars>>

\* the weather the provider reports changes; the program samples it when
\* the response is produced
UpstreamChangeW ==
  /\ fpc["run"] = "await"
  /\ UpstreamChange

WeatherNext ==
  \/ W_GetSection
  \/ F_AcquireRead("run")
  \/ F_Check("run")
  \/ F_Send("run")
  \/ F_Respond("run")
  \/ F_AcquireWrite("run")
  \/ F_Store("run")
  \/ W_Fetched
  \/ W_UpdateRead
  \/ W_WriteTmp
  \/ W_Rename
  \/ W_Again
  \/ UpstreamChangeW
  \/ Tick

SpecWeather == WeatherInit /\ [][WeatherNext]_vars

\* C3: a cycle on a document without the start marker ends without an
\* error and without writing the document
C3_AbsentSectionIsSkipped ==
  ( /\ rpc = "w_done"
    /\ hist.hasRead
    /\ Find(hist.read, START_SECTION_PREFIX) = 0 )
  => (wres.kind # "err" /\ ~hist.wrote /\ file = hist.read)

-----------------------------------------------------------------------------
(* ServiceRunner::run *)

\* DEFAULT_RETRY_ATTEMPTS
RetryAttempts == 3

\* match self.weather_service.run().await: Ok builds the message and sends
\* it, Err is logged
R_AfterWeather ==
  /\ rpc = "w_done"
  /\ IF wres.kind = "ok"
       THEN rpc' = "tg_w" /\ tg' = NoTg
       ELSE rpc' = "k_start" /\ UNCHANGED tg
  /\ UNCHANGED <<file, tmp, upK, kcache, wloc, wres, kloc, kres, rres, runs, kreq, hist>>
  /\ UNCHANGED <<now, fetchVars, locateVars, graphVars>>

\* one turn of send_message's loop, and what `.send(&self.tg).await?` does
\* with the outcome
Tg_Attempt ==
  /\ rpc \in {"tg_w", "tg_k"}
  /\ \E ok \in BOOLEAN :
       IF ok
         THEN /\ tg' = [tg EXCEPT !.attempts = @ + 1, !.result = "ok"]
              /\ rpc' = IF rpc = "tg_w" THEN "k_start" ELSE "r_done"
              /\ rres' = IF rpc = "tg_w" THEN rres ELSE "ok"
         ELSE IF tg.attempts = RetryAttempts
         THEN /\ tg' = [tg EXCEPT !.attempts = @ + 1, !.result = "err"]
              /\ rpc' = "r_done"
              /\ rres' = "err"
         ELSE /\ tg' = [tg EXCEPT !.attempts = @ + 1]
              /\ UNCHANGED <<rpc, rres>>
  /\ UNCHANGED <<file, tmp, upK, kcache, wloc, wres, kloc, kres, runs, kreq, hist>>
  /\ UNCHANGED <<now, fetchVars, locateVars, graphVars>>

\* match self.wakatime_service.run().await: Ok sends one of two messages,
\* Err is logged and run returns Ok(())
R_AfterWaka ==
  /\ rpc = "k_done"
  /\ IF kres.kind = "ok"
       THEN rpc' = "tg_k" /\ tg' = NoTg /\ UNCHANGED rres
       ELSE rpc' = "r_done" /\ rres' = "ok" /\ UNCHANGED tg
  /\ UNCHANGED <<file, tmp, upK, kcache, wloc, wres, kloc, kres, runs, kreq, hist>>
  /\ UNCHANGED <<now, fetchVars, locateVars, graphVars>>

\* main: the program is started again, with new services and empty caches
R_Again ==
  /\ rpc = "r_done"
  /\ runs < MaxRuns
  /\ runs' = runs + 1
  /\ rpc' = "w_start"
  /\ cache' = NoCache
  /\ kcache' = NoCache
  /\ fres' = [fres EXCEPT !["run"] = NoResult]
  /\ wloc' = NoWLoc
  /\ wres' = NoWRes
  /\ kloc' = NoKLoc
  /\ kres' = NoKRes
  /\ tg' = NoTg
  /\ rres' = "none"
  /\ hist' = NoCycleHist
  /\ UNCHANGED <<file, tmp, upK, kreq>>
  /\ UNCHANGED <<now, upW, readers, writer, fpc, fcity, fpend, freq, fhist>>
  /\ UNCHANGED <<locateVars, graphVars>>

\* README files with the WakaTime section in front of the weather section,
\* and with one more WakaTime end marker at the end
WakaFirstDocs ==
  {WAKA_START \o <<NL>> \o WAKA_END
     \o START_SECTION_PREFIX \o <<"a">> \o HTML_COMMENT_END \o WEATHER_END \o again :
     again \in {<<>>, WAKA_END}}

RunnerDocs ==
  {w \o k : w \in {<<>>,
                   START_SECTION_PREFIX \o <<"a">> \o HTML_COMMENT_END \o WEATHER_END,
                   START_SECTION_PREFIX \o <<"a">> \o HTML_COMMENT_END},
            k \in {<<>>,
                   WAKA_START \o <<NL>> \o WAKA_END,
                   WAKA_START \o <<NL>> \o WAKA_END \o <<"a">> \o WAKA_END}}
    \cup WakaFirstDocs

Init ==
  /\ file \in RunnerDocs
  /\ tmp = <<>>
  /\ upK = 1
  /\ kcache = NoCache
  /\ rpc = "w_start"
  /\ wloc = NoWLoc
  /\ wres = NoWRes
  /\ kloc = NoKLoc
  /\ kres = NoKRes
  /\ tg = NoTg
  /\ rres = "none"
  /\ runs = 1
  /\ kreq = 0
  /\ hist = NoCycleHist
  /\ now = 1
  /\ FetchIdle
  /\ LocateIdle
  /\ GraphIdle

Next ==
  \/ W_GetSection
  \/ F_AcquireRead("run")
  \/ F_Check("run")
  \/ F_Send("run")
  \/ F_Respond("run")
  \/ F_AcquireWrite("run")
  \/ F_Store("run")
  \/ W_Fetched
  \/ W_UpdateRead
  \/ W_WriteTmp
  \/ W_Rename
  \/ R_AfterWeather
  \/ K_Send
  \/ K_Respond
  \/ K_UpdateRead
  \/ K_Create
  \/ K_WriteAll
  \/ R_AfterWaka
  \/ Tg_Attempt
  \/ R_Again
  \/ UpstreamChangeW
  \/ UpstreamChangeK
  \/ Tick

Spec == Init /\ [][Next]_vars

\* C10: no execution of ServiceRunner::run returns before the WakaTime
\* cycle has been started
C10_WakaTimeAlwaysStarted ==
  rpc = "r_done" => hist.wakaStarted

-----------------------------------------------------------------------------
(* The region a patch writes *)

\* the region the contract prescribes: start marker, newline, timestamp
\* marker, newline, body, newline, end marker
ContractRegion(start, stampPrefix, t, body, end) ==
  start \o <<NL>> \o stampPrefix \o <<Stamp(t)>> \o HTML_COMMENT_END \o <<NL>>
    \o body \o <<NL>> \o end

\* C11: the document a successful weather cycle has written is the document
\* read with the section replaced by the prescribed region, so the start
\* marker is still followed by the end marker
C11_WrittenRegionIsPrescribed ==
  (rpc = "w_done" /\ wres.kind = "ok" /\ hist.wrote)
  => LET sec == WeatherSectionParse(hist.read)
     IN \E t \in 0..(MaxClock + 1) :
          file = SubSeq(hist.read, 1, sec.start_pos - 1)
                   \o ContractRegion(START_SECTION_PREFIX \o sec.city \o HTML_COMMENT_END,
                                     LAST_UPDATE_PREFIX, t,
                                     FormatWeatherText(wres.weather), WEATHER_END)
                   \o From(hist.read, sec.end_pos + Len(WEATHER_END))

-----------------------------------------------------------------------------
(* The extent of the replacement *)

\* end markers after the start marker of d
EndsAfterStart(d) ==
  IF Find(d, WAKA_START) = 0 THEN {}
  ELSE {e \in Occ(d, WAKA_END) : e >= Find(d, WAKA_START) + Len(WAKA_START)}

\* C12: when several end markers follow the start marker, the document
\* written is the document read with only the region from the start marker
\* through the first of them replaced
C12_FirstEndMarkerCloses ==
  ( /\ rpc = "k_done"
    /\ kres.kind = "ok" /\ kres.was_updated
    /\ Cardinality(EndsAfterStart(hist.read)) >= 2 )
  => file = SubSeq(hist.read, 1, Find(hist.read, WAKA_START) - 1)
              \o WakaReplacement(kloc.content, kloc.current_update)
              \o From(hist.read, Min(EndsAfterStart(hist.read)) + Len(WAKA_END))

-----------------------------------------------------------------------------
(* The caches of the two services *)

\* C13 (WakaTimeService): while the cache holds an entry younger than the
\* freshness window, no request is on its way to the provider
C13_FreshEntryMeansNoRequest ==
  ~(rpc = "k_await" /\ kcache.has /\ now - kcache.at < CacheDuration)

-----------------------------------------------------------------------------
(* SpecTelegram: MessageBuilder::send and TelegramClient::send_message *)

\* MAX_MESSAGE_LENGTH
MAX_MESSAGE_LENGTH == 4096

\* largest retry_attempts a client is built with
MaxRetry == 3

\* texts, by their number of characters and their UTF-8 length (str::len):
\* ASCII texts and Cyrillic ones around the limit
TextShapes ==
  {[chars |-> c, bytes |-> c * w] :
     c \in {0, 1, MAX_MESSAGE_LENGTH \div 2, (MAX_MESSAGE_LENGTH \div 2) + 1,
            MAX_MESSAGE_LENGTH - 1, MAX_MESSAGE_LENGTH, MAX_MESSAGE_LENGTH + 1},
     w \in {1, 2}}

\* retry_delay, in seconds
RetryDelays == {1, 2}

\* what try_send_message returns
SendOutcomes == {"ok", "HttpError", "RateLimitExceeded", "ApiError"}

\* the loop gives up one attempt too late
IsLastAttemptLate(attempt, retries) == attempt = retries + 1

\* if attempt == self.config.retry_attempts
IsLastAttempt(attempt, retries) == attempt = retries

\* the limit applied to the number of characters
TooLongByChars(text) == text.chars > MAX_MESSAGE_LENGTH

\* if text.len() > MAX_MESSAGE_LENGTH
TooLong(text) == text.bytes > MAX_MESSAGE_LENGTH

TelegramInit ==
  /\ \E text \in TextShapes, r \in 0..MaxRetry, d \in RetryDelays :
       tg = [NoTg EXCEPT !.pc = "build", !.chars = text.chars, !.bytes = text.bytes,
                         !.retry_attempts = r, !.retry_delay = d]
  /\ file = <<>>
  /\ tmp = <<>>
  /\ upK = 1
  /\ kcache = NoCache
  /\ rpc = "idle"
  /\ wloc = NoWLoc
  /\ wres = NoWRes
  /\ kloc = NoKLoc
  /\ kres = NoKRes
  /\ rres = "none"
  /\ runs = 0
  /\ kreq = 0
  /\ hist = NoCycleHist
  /\ now = 0
  /\ FetchIdle
  /\ LocateIdle
  /\ GraphIdle

\* MessageBuilder::send: chat id and text are set; the length check, then
\* client.send_message(message)
M_Send ==
  /\ tg.pc = "build"
  /\ IF TooLong(tg)
       THEN tg' = [tg EXCEPT !.pc = "done", !.result = "err", !.err = "ApiError"]
       ELSE tg' = [tg EXCEPT !.pc = "try", !.started = now]
  /\ UNCHANGED <<file, tmp, upK, kcache, rpc, wloc, wres, kloc, kres, rres, runs, kreq, hist>>
  /\ UNCHANGED <<now, fetchVars, locateVars, graphVars>>

\* one turn of the for loop: try_send_message and the match on its result
T_Try ==
  /\ tg.pc = "try"
  /\ \E out \in SendOutcomes :
       IF out = "ok"
         THEN tg' = [tg EXCEPT !.attempts = @ + 1, !.oks = @ + 1,
                               !.pc = "done", !.result = "ok"]
         ELSE IF IsLastAttempt(tg.attempts, tg.retry_attempts)
         THEN tg' = [tg EXCEPT !.attempts = @ + 1, !.last = out,
                               !.pc = "done", !.result = "err", !.err = out]
         ELSE tg' = [tg EXCEPT !.attempts = @ + 1, !.last = out, !.pc = "sleep"]
  /\ UNCHANGED <<file, tmp, upK, kcache, rpc, wloc, wres, kloc, kres, rres, runs, kreq, hist>>
  /\ UNCHANGED <<now, fetchVars, locateVars, graphVars>>

\* tokio::time::sleep(self.config.retry_delay).await
T_Sleep ==
  /\ tg.pc = "sleep"
  /\ now' = now + tg.retry_delay
  /\ tg' = [tg EXCEPT !.sleeps = @ + 1, !.pc = "try"]
  /\ UNCHANGED <<fetchVars, locateVars, graphVars>>
  /\ UNCHANGED <<file, tmp, upK, kcache, rpc, wloc, wres, kloc, kres, rres, runs, kreq, hist>>

TelegramNext ==
  \/ M_Send
  \/ T_Try
  \/ T_Sleep

\* the runtime keeps polling the task; every request ends within the
\* client's timeout and every sleep ends
SpecTelegram == TelegramInit /\ [][TelegramNext]_vars /\ WF_vars(TelegramNext)

TelegramSafe ==
  /\ tg.attempts <= tg.retry_attempts + 1
  /\ tg.oks <= 1
  /\ tg.oks = 1 => (tg.pc = "done" /\ tg.result = "ok")
  /\ tg.pc \in {"try", "sleep", "done"} =>
       now - tg.started = tg.sleeps * tg.retry_delay
  /\ tg.pc = "try" => tg.sleeps = tg.attempts
  /\ tg.pc = "sleep" => tg.sleeps = tg.attempts - 1
  /\ (tg.pc = "done" /\ tg.attempts > 0) => tg.sleeps = tg.attempts - 1
  /\ (tg.pc = "done" /\ tg.result = "err" /\ tg.attempts > 0) =>
       (tg.attempts = tg.retry_attempts + 1 /\ tg.err = tg.last)

\* C14: send_message ends; it makes at most retry_attempts + 1 attempts with
\* one retry_delay between consecutive ones, none after a success, and when
\* all fail it returns the last attempt's error
C14_SendMessageBoundedRetries ==
  []TelegramSafe /\ <>(tg.pc = "done")

\* C14 witness: every attempt of a client with retries has failed
C14_Witness ==
  /\ tg.pc = "done" /\ tg.result = "err"
  /\ tg.retry_attempts >= 2
  /\ tg.attempts = tg.retry_attempts + 1
  /\ tg.sleeps = tg.retry_attempts
  /\ tg.err = "RateLimitExceeded"

\* C15: a text is rejected before any attempt exactly when it has more
\* than 4096 characters
C15_RejectsByCharacters ==
  /\ (tg.chars > MAX_MESSAGE_LENGTH /\ tg.pc # "build")
       => (tg.pc = "done" /\ tg.result = "err" /\ tg.attempts = 0)
  /\ (tg.chars <= MAX_MESSAGE_LENGTH /\ tg.pc # "build")
       => ~(tg.pc = "done" /\ tg.attempts = 0)

-----------------------------------------------------------------------------
(* HTTP status and error kind *)

\* C16 (WakaTimeService): ApiError is returned for non-2xx responses other
\* than 429 only; 429 is RateLimitExceeded
C16_ApiErrorNeverFor429 ==
  (kres.kind = "err" /\ kres.err = "ApiError")
  => (kres.status \notin 200..299 /\ kres.status # 429)

-----------------------------------------------------------------------------
(* Timestamps that do not parse *)

\* C17: a document with valid markers and target whose last-update marker
\* holds no valid timestamp, closed or not, is located with last_update
\* absent
C17_BadTimestampIsAbsent ==
  \A b \in BadStampBodies :
    (parsed.kind # "none" /\ doc = BuiltDoc(<<"a">>, b))
      => (parsed.kind = "ok" /\ parsed.last_update = NoTime)

-----------------------------------------------------------------------------
(* The bar of make_graph over the whole range *)

\* C18 as stated: for percent in [0, 100] the bar is the one computed with
\* step = 1/3
C18_BarByThirds ==
  (graph # <<>> /\ blocks = ValidBlocks /\ percent <= 100 * 100)
  => graph = MakeGraphThirds(ValidBlocks, percent)

\* quarter cells the bar shows: 4 * proportion rounded half up, one less
\* where the f64 product falls below the exact value
QuarterCells(pct) ==
  ((pct + 50) \div 100) - (IF pct \in F64Below THEN 1 ELSE 0)

\* C18 amended: for percent in [0, 100] the bar has 25 glyphs and shows
\* proportion rounded to the nearest quarter of a cell: the whole cells as
\* full glyphs, then blocks[q] for q = 1..3 left-over quarters, then empty
\* glyphs
C18_BarByQuarters ==
  (graph # <<>> /\ blocks = ValidBlocks /\ percent <= 100 * 100)
  => LET Q == QuarterCells(percent)
     IN /\ Len(graph) = GRAPH_WIDTH
        /\ \A i \in 1..GRAPH_WIDTH :
             graph[i] = IF i <= Q \div 4 THEN "b3"
                        ELSE IF i = (Q \div 4) + 1 /\ Q % 4 > 0
                          THEN ValidBlocks[(Q % 4) + 1]
                        ELSE "b0"

\* C18 witness: 14.5 %, where the f64 product is below 3.625: three full
\* glyphs and the second transitional glyph
C18_Witness ==
  /\ blocks = ValidBlocks /\ percent = 1450
  /\ Len(graph) = GRAPH_WIDTH
  /\ CountOf(graph, "b3") = 3 /\ graph[4] = "b2" /\ graph[5] = "b0"

-----------------------------------------------------------------------------
(* SpecRows: Template::render_languages *)

\* longest snapshot
MaxLangs == 3

LangNames == {"A", "a", "Other", "B"}

\* names that can be configured as ignored
IgnorableNames == {"a", "Other"}

\* stands for usize::MAX: beyond the length of every snapshot
USIZE_MAX == 2^30

\* lang_count as usize: a negative i32 wraps round to a huge value
AsUsize(n) == IF n < 0 THEN USIZE_MAX + n ELSE n

\* .take(if lang_count > 0 { lang_count } else { usize::MAX })
TakeLimit(lang_count) ==
  IF AsUsize(lang_count) > 0 THEN AsUsize(lang_count) ELSE USIZE_MAX

Lower(name) == IF name = "A" THEN "a" ELSE IF name = "B" THEN "b" ELSE name

\* the filter comparing names without regard to case
IsIgnoredAnyCase(name, ignored) == \E g \in ignored : Lower(g) = Lower(name)

\* self.ignored_langs.contains(&l.name)
IsIgnored(name, ignored) == name \in ignored

\* the for loop of render_languages from position i on, with `taken` items
\* already through take(): the positions a row is pushed for
RECURSIVE RowsFrom(_, _, _, _, _)
RowsFrom(langs, cfg, i, taken, out) ==
  IF i > Len(langs) THEN out
  ELSE IF IsIgnored(langs[i], cfg.ignored) THEN RowsFrom(langs, cfg, i + 1, taken, out)
  ELSE IF taken = TakeLimit(cfg.lang_count) THEN out
  ELSE IF cfg.stop_at_other /\ langs[i] = "Other" THEN Append(out, i)
  ELSE RowsFrom(langs, cfg, i + 1, taken + 1, Append(out, i))

RenderLanguages(langs, cfg) == RowsFrom(langs, cfg, 1, 0, <<>>)

RowsInit ==
  /\ languages \in Strings(LangNames, MaxLangs)
  /\ settings \in [lang_count : (-1)..MaxLangs, stop_at_other : BOOLEAN,
                   ignored : SUBSET IgnorableNames]
  /\ rows = NoRows
  /\ blocks = <<>> /\ percent = 0 /\ graph = <<>>
  /\ LocateIdle
  /\ now = 0
  /\ FetchIdle
  /\ RunIdle

\* content.push_str(&self.render_languages(stats))
RenderRows ==
  /\ ~rows.done
  /\ rows' = [done |-> TRUE, at |-> RenderLanguages(languages, settings)]
  /\ UNCHANGED <<blocks, percent, graph, languages, settings>>
  /\ UNCHANGED <<locateVars, now, fetchVars, runVars>>

RowsNext == RenderRows

SpecRows == RowsInit /\ [][RowsNext]_vars

\* positions of the snapshot whose name is not ignored, in snapshot order
KeptPositions(langs, ignored) ==
  {i \in 1..Len(langs) : langs[i] \notin ignored}

\* the n smallest members of a set of positions (all of them when n = 0)
FirstOf(S, n) ==
  IF n = 0 THEN S ELSE {i \in S : Cardinality({j \in S : j < i}) < n}

\* S without what follows the first position named "Other"
CutAtOther(S, langs) ==
  LET others == {i \in S : langs[i] = "Other"}
  IN IF others = {} THEN S ELSE {i \in S : i <= Min(others)}

\* C19: the rows are, in snapshot order, the first lang_count (all when it
\* is 0) of the items that are not ignored, cut after the first row named
\* Other when stop_at_other is set
C19_RowsAreFilterThenTake ==
  (rows.done /\ settings.lang_count >= 0)
  => LET first == FirstOf(KeptPositions(languages, settings.ignored), settings.lang_count)
         shown == IF settings.stop_at_other THEN CutAtOther(first, languages) ELSE first
     IN /\ {rows.at[k] : k \in 1..Len(rows.at)} = shown
        /\ \A k \in 1..(Len(rows.at) - 1) : rows.at[k] < rows.at[k + 1]

\* C19 witness: an ignored item precedes the rows, the limit cuts the list
\* and a name differing only in case from an ignored one is shown
C19_Witness ==
  /\ rows.done
  /\ languages = <<"a", "A", "B">>
  /\ settings = [lang_count |-> 1, stop_at_other |-> TRUE, ignored |-> {"a"}]
  /\ rows.at = <<2>>

-----------------------------------------------------------------------------
(* StatsUpdater (wakatime/src/stats.rs); its locals and result are kept in
   kloc and kres *)

\* str::lines: the pieces between newlines; a final newline ends the last
\* line and starts no new one
RECURSIVE SplitLines(_)
SplitLines(s) ==
  IF s = <<>> THEN <<>>
  ELSE LET n == Find(s, <<NL>>)
       IN IF n = 0 THEN <<s>>
          ELSE <<SubSeq(s, 1, n - 1)>> \o SplitLines(From(s, n + 1))

\* .collect::<Vec<_>>().join("\n")
RECURSIVE JoinLines(_)
JoinLines(ls) ==
  IF ls = <<>> THEN <<>>
  ELSE IF Len(ls) = 1 THEN ls[1]
  ELSE ls[1] \o <<NL>> \o JoinLines(Tail(ls))

\* tokens that begin with the characters <!--
CommentOpeners ==
  {"<!--", "<!--START_SECTION:waka", "<!--END_SECTION:waka", "<!--LAST_WAKA_UPDATE:"}

StartsWithComment(line) == line # <<>> /\ line[1] \in CommentOpeners
EndsWithCommentEnd(line) ==
  Len(line) >= 3 /\ SubSeq(line, Len(line) - 2, Len(line)) = HTML_COMMENT_END
StartsWithFence(line) == line # <<>> /\ line[1] = FENCE
EndsWithFence(line) == line # <<>> /\ line[Len(line)] = FENCE

TrimEach(ls) == [i \in 1..Len(ls) |-> Trim(ls[i])]

\* extract_content_and_timestamp's filter on the lines of the section
KeepSectionLine(line) ==
  ~StartsWithComment(Trim(line)) /\ ~EndsWithCommentEnd(Trim(line))

\* readme.split(start).nth(1).and_then(|s| s.split(end).next()): what lies
\* between the first start marker and the next start or end marker
SectionText(readme) ==
  LET after == From(readme, Find(readme, WAKA_START) + Len(WAKA_START))
      again == Find(after, WAKA_START)
      piece == IF again = 0 THEN after ELSE SubSeq(after, 1, again - 1)
      close == Find(piece, WAKA_END)
  IN IF close = 0 THEN piece ELSE SubSeq(piece, 1, close - 1)

\* StatsUpdater::parse_last_update: the first line that starts with the
\* prefix, the prefix and a closing --> taken off, trimmed
StatsParseLastUpdate(section) ==
  LET ls == SplitLines(section)
      hits == {i \in 1..Len(ls) : ls[i] # <<>> /\ <<ls[i][1]>> = WAKA_LAST_UPDATE_PREFIX}
      line == ls[Min(hits)]
      rest == Tail(line)
      bare == IF EndsWithCommentEnd(rest) THEN SubSeq(rest, 1, Len(rest) - 3) ELSE rest
  IN IF hits = {} THEN NoTime ELSE ParseDateTime(Trim(bare))

\* the content half of extract_content_and_timestamp
ExtractContent(readme) ==
  Trim(JoinLines(SelectSeq(SplitLines(SectionText(readme)), KeepSectionLine)))

KeepNormalLine(line) ==
  line # <<>> /\ ~StartsWithFence(line) /\ ~EndsWithFence(line)

\* the closure normalize of contents_equal
Normalize(s) == JoinLines(SelectSeq(TrimEach(SplitLines(s)), KeepNormalLine))


\* StatsUpdater::contents_equal
ContentsEqual(content1, content2) == Normalize(content1) = Normalize(content2)

\* new_section of replace_section
StatsNewSection(content, t) ==
  WAKA_START \o <<NL>> \o WAKA_LAST_UPDATE_PREFIX \o <<Stamp(t)>> \o HTML_COMMENT_END
    \o <<NL>> \o content \o <<NL>> \o WAKA_END

\* StatsUpdater::update up to the write: read_to_string, Utc::now(),
\* extract_content_and_timestamp, contents_equal, replace_section
S_Update ==
  /\ rpc = "s_start"
  /\ \E readOk \in BOOLEAN :
       IF ~readOk
         THEN /\ kres' = KErr("IoError")
              /\ rpc' = "s_done"
              /\ hist' = CycleStart(hist, file)
              /\ UNCHANGED kloc
         ELSE /\ hist' = [CycleStart(hist, file) EXCEPT !.read = file, !.hasRead = TRUE]
              /\ IF Find(file, WAKA_START) = 0
                   THEN /\ kres' = KErr("ParseError")
                        /\ rpc' = "s_done"
                        /\ UNCHANGED kloc
                   ELSE IF ContentsEqual(Trim(ExtractContent(file)), Trim(kloc.content))
                   THEN /\ kres' = [NoKRes EXCEPT !.kind = "ok",
                                      !.last_update = StatsParseLastUpdate(SectionText(file)),
                                      !.current_update = now,
                                      !.was_updated = FALSE]
                        /\ rpc' = "s_done"
                        /\ UNCHANGED kloc
                   ELSE /\ kloc' = [kloc EXCEPT
                                      !.last_update = StatsParseLastUpdate(SectionText(file)),
                                      !.current_update = now,
                                      !.new_readme = ReplaceLazy(file, WAKA_START, WAKA_END,
                                                        StatsNewSection(kloc.content, now))]
                        /\ rpc' = "s_create"
                        /\ UNCHANGED kres
  /\ UNCHANGED <<file, tmp, upK, kcache, wloc, wres, tg, rres, runs, kreq>>
  /\ UNCHANGED <<now, fetchVars, locateVars, graphVars>>

\* std::fs::write(&self.readme_path, ..), first half: the file is opened
\* with truncation
S_Create ==
  /\ rpc = "s_create"
  /\ \/ /\ file' = <<>>
        /\ rpc' = "s_write"
        /\ UNCHANGED kres
     \/ /\ kres' = KErr("IoError")
        /\ rpc' = "s_done"
        /\ UNCHANGED file
  /\ UNCHANGED <<tmp, upK, kcache, wloc, wres, kloc, tg, rres, runs, kreq, hist>>
  /\ UNCHANGED <<now, fetchVars, locateVars, graphVars>>

\* std::fs::write, second half: write_all, then Ok(UpdateResult {..})
S_WriteAll ==
  /\ rpc = "s_write"
  /\ \/ /\ file' = kloc.new_readme
        /\ hist' = [hist EXCEPT !.wrote = TRUE]
        /\ kres' = [NoKRes EXCEPT !.kind = "ok",
                                  !.last_update = kloc.last_update,
                                  !.current_update = kloc.current_update,
                                  !.was_updated = TRUE]
     \/ /\ file' \in Prefixes(kloc.new_readme)
        /\ kres' = KErr("IoError")
        /\ UNCHANGED hist
  /\ rpc' = "s_done"
  /\ UNCHANGED <<tmp, upK, kcache, wloc, wres, kloc, tg, rres, runs, kreq>>
  /\ UNCHANGED <<now, fetchVars, locateVars, graphVars>>

\* update is called again with the same content
S_Again ==
  /\ rpc = "s_done"
  /\ runs < MaxRuns
  /\ runs' = runs + 1
  /\ hist' = [hist EXCEPT !.prevDone = TRUE,
                          !.prevOk = (kres.kind = "ok"),
                          !.prevFile = file]
  /\ kloc' = [NoKLoc EXCEPT !.content = kloc.content]
  /\ kres' = NoKRes
  /\ rpc' = "s_start"
  /\ UNCHANGED <<file, tmp, upK, kcache, wloc, wres, tg, rres, kreq>>
  /\ UNCHANGED <<now, fetchVars, locateVars, graphVars>>

\* the new_content arguments
StatsContents ==
  { Render(1), Render(2), <<"stats1">>, <<SP, "stats1", SP, NL, NL>>,
    <<"stats1", NL, "<!--", "a">> \o HTML_COMMENT_END }

StatsSectionBodies ==
  {<<>>, <<"a">>, <<NL, "stats1", NL>>}
    \cup {<<NL>> \o WAKA_LAST_UPDATE_PREFIX \o <<Stamp(0)>> \o HTML_COMMENT_END
            \o <<NL>> \o c \o <<NL>> : c \in StatsContents}

StatsDocs ==
  {<<"a">>, WAKA_START \o <<NL, "a">>}
    \cup {pre \o WAKA_START \o b \o WAKA_END \o post :
            pre \in Fill, b \in StatsSectionBodies, post \in Fill}

StatsInit ==
  /\ file \in StatsDocs
  /\ \E c \in StatsContents : kloc = [NoKLoc EXCEPT !.content = c]
  /\ tmp = <<>>
  /\ upK = 1
  /\ kcache = NoCache
  /\ rpc = "s_start"
  /\ wloc = NoWLoc
  /\ wres = NoWRes
  /\ kres = NoKRes
  /\ tg = NoTg
  /\ rres = "none"
  /\ runs = 1
  /\ kreq = 0
  /\ hist = NoCycleHist
  /\ now = 1
  /\ FetchIdle
  /\ LocateIdle
  /\ GraphIdle

\* a second passes between two calls
S_Tick ==
  /\ rpc = "s_done"
  /\ now < MaxClock
  /\ now' = now + 1
  /\ UNCHANGED <<fetchVars, locateVars, graphVars, runVars>>

StatsNext ==
  \/ S_Update
  \/ S_Create
  \/ S_WriteAll
  \/ S_Again
  \/ S_Tick

SpecStats == StatsInit /\ [][StatsNext]_vars

\* a comment or timestamp line: it opens with <!-- and closes with -->
IsCommentLine(line) == StartsWithComment(line) /\ EndsWithCommentEnd(line)

KeepContractLine(line) ==
  line # <<>> /\ ~IsCommentLine(line) /\ ~StartsWithFence(line)

\* the contract's normal form: every line trimmed, blank lines, comment and
\* timestamp lines and code-fence lines dropped
ContractNormal(s) ==
  JoinLines(SelectSeq(TrimEach(SplitLines(s)), KeepContractLine))

\* the text between the start marker and the first end marker after it
SectionBody(d) ==
  SubSeq(d, Find(d, WAKA_START) + Len(WAKA_START), LocatedEnd(d) - 1)

\* C20: when the section's body and the new content have the same normal
\* form, update returns was_updated = false and does not write the file
C20_EqualNormalFormsNoWrite ==
  ( /\ rpc = "s_done"
    /\ hist.hasRead
    /\ LocatedEnd(hist.read) # 0
    /\ ContractNormal(SectionBody(hist.read)) = ContractNormal(kloc.content) )
  => ( /\ kres.kind = "ok" /\ ~kres.was_updated
       /\ ~hist.wrote /\ file = hist.read )

-----------------------------------------------------------------------------
(* Where the previous last_update is read from *)

\* the timestamp of the last-update comment between the start marker and the
\* end marker of the located section of d; NoTime when there is no section
\* or no such comment
StampInSection(d) ==
  LET s == Find(d, WAKA_START)
      e == LocatedEnd(d)
  IN IF e = 0 THEN NoTime
     ELSE WakaParseLastUpdate(SubSeq(d, s + Len(WAKA_START), e - 1)).value

\* C21: the last_update a WakaTime cycle reports is the timestamp of the
\* last-update comment inside the located section of the document it read;
\* a last-update comment elsewhere in the document never determines it
C21_LastUpdateOnlyFromSection ==
  (rpc = "k_done" /\ kres.kind = "ok" /\ hist.hasRead)
    => kres.last_update = StampInSection(hist.read)

-----------------------------------------------------------------------------
(* The offsets of a located section *)

\* the first position after the closing --> of the first start marker of
\* content; 0 when the start marker is absent or never closed
StartMarkerEnd(content) ==
  LET start_pos == Find(content, START_SECTION_PREFIX)
      city_start == start_pos + Len(START_SECTION_PREFIX)
      city_end == Find(From(content, city_start), HTML_COMMENT_END)
  IN IF start_pos = 0 \/ city_end = 0 THEN 0
     ELSE city_start + city_end - 1 + Len(HTML_COMMENT_END)

\* C22: every section a successful WeatherSection::parse returns has
\* start_pos < end_pos, its end marker begins at or after the end of the
\* start marker, and its city holds no part of the end marker
C22_EndMarkerAfterStartMarker ==
  parsed.kind = "ok"
    => /\ parsed.start_pos < parsed.end_pos
       /\ parsed.end_pos >= StartMarkerEnd(doc)
       /\ \A i \in 1..Len(parsed.city) : parsed.city[i] # WEATHER_END[1]

-----------------------------------------------------------------------------
(* SpecShared: WeatherService::run while another process writes README.md *)

\* what the other process leaves in place of the file f: the file cut to
\* nothing, a line put in front of it, the section taken out
OtherWrites(f) ==
  {<<>>, <<"a", NL>> \o f}
    \cup (IF Find(f, START_SECTION_PREFIX) = 0 THEN {}
          ELSE {SubSeq(f, 1, Find(f, START_SECTION_PREFIX) - 1)})

\* another process replaces README.md, once, while the run's request to the
\* provider is in flight: between get_weather_section and update_readme
OtherWriter ==
  /\ rpc = "w_fetch"
  /\ fpc["run"] = "await"
  /\ file = hist.read
  /\ file' \in OtherWrites(file) \ {file}
  /\ UNCHANGED <<tmp, upK, kcache, wloc, wres, kloc, kres, tg, rres, runs, kreq, hist>>
  /\ UNCHANGED <<rpc, now, fetchVars, locateVars, graphVars>>

SharedNext ==
  \/ W_GetSection
  \/ F_AcquireRead("run")
  \/ F_Check("run")
  \/ F_Send("run")
  \/ F_Respond("run")
  \/ F_AcquireWrite("run")
  \/ F_Store("run")
  \/ W_Fetched
  \/ W_UpdateRead
  \/ W_WriteTmp
  \/ W_Rename
  \/ W_Again
  \/ UpstreamChangeW
  \/ Tick
  \/ OtherWriter

SpecShared == WeatherInit /\ [][SharedNext]_vars

\* C23: whatever another writer does to the file while the cycle is in
\* progress, the document a weather cycle writes is the snapshot it located
\* with only the section region replaced, and the cycle does not panic after
\* it has located the section
C23_SplicesTheLocatedSnapshot ==
  /\ (rpc = "w_done" /\ hist.wrote)
       => \E t \in 0..MaxClock :
            file = WeatherNewContent(hist.read, wloc.section, wres.weather, t)
  /\ ~(rpc = "panicked" /\ wloc.section.kind = "ok")

-----------------------------------------------------------------------------
(* The cache lock around the request *)

\* SpecLocks: two tasks calling fetch_weather on one WeatherService
LockCallers == {"c1", "c2"}

LocksNext ==
  \/ \E t \in LockCallers : C_Call(t)
  \/ \E t \in LockCallers : F_AcquireRead(t)
  \/ \E t \in LockCallers : F_Check(t)
  \/ \E t \in LockCallers : F_Send(t)
  \/ \E t \in LockCallers : F_Respond(t)
  \/ \E t \in LockCallers : F_AcquireWrite(t)
  \/ \E t \in LockCallers : F_Store(t)
  \/ UpstreamChange
  \/ C_Tick

SpecLocks == CacheInit /\ [][LocksNext]_vars

\* the tasks whose request to the provider is being made or is in flight
InFlight == {t \in Tasks : fpc[t] \in {"send", "await"}}

\* C24: a task whose request is in flight holds neither the read lock nor
\* the write lock, so a caller that finds only such tasks beside it can take
\* either lock; the write lock is held only across the step that stores the
\* (value, now) pair
C24_NoLockHeldWhileInFlight ==
  /\ \A t \in InFlight : t \notin readers /\ writer # t
  /\ \A t \in Tasks : writer = t => fpc[t] = "store"
  /\ \A u \in Tasks :
       (InFlight # {} /\ \A v \in Tasks \ InFlight : v \notin readers /\ writer # v)
         => /\ fpc[u] = "read_lock" => ENABLED F_AcquireRead(u)
            /\ fpc[u] = "write_lock" => ENABLED F_AcquireWrite(u)

\* one caller's request is in flight while another caller holds the write
\* lock, having had its own response in the meantime
C24_Witness ==
  \E t \in LockCallers, u \in LockCallers :
    /\ t # u
    /\ fpc[t] = "await"
    /\ writer = u
    /\ fpc[u] = "store"

-----------------------------------------------------------------------------
(* The order of locate and fetch *)

\* C25: a WakaTime cycle has a request to the provider in flight only when
\* the document it started on contains the section
C25_NoRequestWithoutSection ==
  rpc = "k_await" => LocatedEnd(hist.start) # 0

-----------------------------------------------------------------------------
(* The two cycles of one run on the one README.md *)

\* the region the weather cycle of the run wrote, from its start marker to
\* the end of the new body
WeatherWritten ==
  LET head == START_SECTION_PREFIX \o wloc.section.city \o HTML_COMMENT_END \o <<NL>>
  IN SubSeq(wloc.new_content, wloc.section.start_pos,
            wloc.section.start_pos + Len(head) + Len(FormatReadme(wres.weather, 0)) - 1)

\* the region the WakaTime cycle of the run wrote
WakaWritten == WakaReplacement(kloc.content, kres.current_update)

\* C26: after a run of ServiceRunner::run in which the weather cycle
\* succeeded and the WakaTime cycle succeeded and wrote, README.md holds
\* the region the weather cycle wrote and the region the WakaTime cycle wrote
C26_NeitherWriteIsLost ==
  (rpc = "r_done" /\ wres.kind = "ok" /\ kres.kind = "ok" /\ kres.was_updated)
    => /\ Occ(file, WeatherWritten) # {}
       /\ Occ(file, WakaWritten) # {}

-----------------------------------------------------------------------------
(* SpecRender: Template::render with every kind of glyph set *)

\* wakatime.blocks: no glyph, three, four, five
RenderBlockConfigs ==
  {<<>>, <<"b0", "b1", "b3">>, ValidBlocks, <<"b0", "b1", "b2", "b3", "b4">>}

\* lang.percent of the snapshot's languages, in hundredths of a percent
LangPercent(name) ==
  IF name = "A" THEN 5650
  ELSE IF name = "a" THEN 2850
  ELSE IF name = "Other" THEN 1000
  ELSE 500

RenderInit ==
  /\ languages \in Strings(LangNames, MaxLangs)
  /\ settings \in [lang_count : {0, 2}, stop_at_other : BOOLEAN,
                   ignored : {{}, {"a"}}]
  /\ blocks \in RenderBlockConfigs
  /\ rows = NoRows
  /\ percent = 0
  /\ graph = <<>>
  /\ LocateIdle
  /\ now = 0
  /\ FetchIdle
  /\ RunIdle

\* Template::render: the rows of render_languages, each with the bar
\* make_graph(lang.percent) gives; the only exit is Ok(content)
RenderDocument ==
  /\ ~rows.done
  /\ LET at == RenderLanguages(languages, settings)
     IN /\ rows' = [done |-> TRUE, at |-> at]
        /\ graph' = [i \in 1..Len(at) |->
                       MakeGraphFrom(blocks, LangPercent(languages[at[i]]))]
  /\ UNCHANGED <<blocks, percent, languages, settings>>
  /\ UNCHANGED <<locateVars, now, fetchVars, runVars>>

RenderNext == RenderDocument

SpecRender == RenderInit /\ [][RenderNext]_vars

\* C27: with a glyph set that does not have exactly four characters,
\* Template::render returns its document, one bar for every row, and every
\* bar is the text "Invalid blocks configuration"
C27_InvalidGlyphSetFailsClosed ==
  (rows.done /\ Len(blocks) # 4)
    => /\ Len(graph) = Len(rows.at)
       /\ \A i \in 1..Len(graph) : graph[i] = <<"Invalid blocks configuration">>

\* a document of two rows or more was rendered with five glyphs configured
C27_Witness ==
  /\ rows.done
  /\ Len(blocks) = 5
  /\ Len(graph) >= 2

-----------------------------------------------------------------------------
(* The weather section from one cycle to the next *)

\* C28: after a successful WeatherService::run the document still holds the
\* section: WeatherSection::parse succeeds on it and yields the same city
C28_SectionSurvivesTheCycle ==
  (rpc = "w_done" /\ wres.kind = "ok")
    => /\ WeatherSectionParse(file).kind = "ok"
       /\ WeatherSectionParse(file).city = wloc.section.city

-----------------------------------------------------------------------------
(* What was_updated reports *)

\* C29: a StatsUpdater::update that returns Ok reports was_updated = true
\* exactly when it wrote the file and the file differs from what it read
C29_WasUpdatedIffChanged ==
  (rpc = "s_done" /\ kres.kind = "ok")
    => (kres.was_updated <=> (hist.wrote /\ file # hist.read))

-----------------------------------------------------------------------------
(* The audit trail of last updates *)

\* the timestamp of the last-update comment in the weather section of d
WeatherStampIn(d) ==
  IF Find(d, START_SECTION_PREFIX) = 0 THEN NoTime
  ELSE WeatherParseLastUpdate(From(d, Find(d, START_SECTION_PREFIX))).value

\* C30: the timestamp a successful weather cycle embeds in the document is,
\* to the second, the current_update it returns, and a later successful
\* cycle reports as last_update the timestamp the earlier one left
C30_LastUpdateIsEarlierCurrentUpdate ==
  (rpc = "w_done" /\ wres.kind = "ok")
    => /\ WeatherStampIn(file) = wres.current_update
       /\ (hist.prevDone /\ hist.prevOk)
            => wres.last_update = WeatherStampIn(hist.prevFile)

====
